---- MODULE Spec2Model ----
(***************************************************************************)
(* A model of the rusqlite-vss vector store service.                       *)
(*                                                                         *)
(* src/src/store.rs   the storage functions: each formats SQL text from    *)
(*                    the collection name and runs it on the one SQLite    *)
(*                    connection.  A collection NAME is two SQL tables:    *)
(*                    the vss0 virtual table NAME and the ordinary table   *)
(*                    NAME_payload.                                        *)
(* src/src/service.rs the HTTP handlers: each awaits the one tokio Mutex   *)
(*                    around the connection, calls one storage function    *)
(*                    and maps its rusqlite::Result to a status code.      *)
(* src/src/main.rs    the routes and the Arc<Mutex<Connection>>.           *)
(*                                                                         *)
(* The database is modelled at the level the code uses it: a catalogue of  *)
(* named tables, each a map from rowid to a cell, and the connection's     *)
(* open-transaction flag.  A float is modelled by a small natural number.  *)
(***************************************************************************)
EXTENDS Integers, Sequences, FiniteSets, TLC

\* ------------------------------------------------------------------ bounds

\* Number of concurrent request-handling tasks.
NumProcs == 2

\* Width in bits of the point id (u64 in the code) and of the SQLite rowid
\* (i64 in the code), scaled down: ids are 0 .. 2^IdBits - 1, rowids are
\* -2^(IdBits-1) .. 2^(IdBits-1) - 1.
IdBits == 3

Procs == 1..NumProcs

I64Max == 2^(IdBits - 1) - 1

\* Two ids that fit the signed rowid and one that does not.
BigId == I64Max + 2

Ids == {1, 2, BigId}

\* The collection names requests use.  The second is the first followed by
\* "_payload".
CollNames == {"a", "a_payload"}

\* format!("{}_payload", name): the name of a collection's payload table.
PayloadTable(name) == name \o "_payload"

TableNames == CollNames \cup {PayloadTable(n) : n \in CollNames}

\* The vectors.size values of create requests.
Sizes == {2}

\* Values a read past the end of a buffer may yield.
PadFloats == {0}

\* The query vectors of search requests, one of length 2 and one too short,
\* and their limits.
QueryPool == {<<0, 0>>, <<1>>}

Limits == {0, 1, 2}

\* Option<serde_json::Map>: None is <<>>, Some(m) is <<m>>, and a map m is a
\* sequence of <<key, value>> pairs.
NoneP == <<>>

SomeP(m) == <<m>>

EmptyMap == <<>>

CityMap(c) == << <<"city", c>> >>

PayloadPool == {NoneP, SomeP(EmptyMap), SomeP(CityMap("Berlin"))}

\* ------------------------------------------------------------------ codec

Byte(n, j) == (n \div (256 ^ j)) % 256

\* vector_to_blob: the f32 slice reinterpreted as bytes, 4 per float.
vector_to_blob(vector) ==
    [i \in 1..(4 * Len(vector)) |-> Byte(vector[((i - 1) \div 4) + 1], (i - 1) % 4)]

\* blob_to_vector: the bytes reinterpreted as blob.len() / 4 floats.
blob_to_vector(blob) ==
    [j \in 1..(Len(blob) \div 4) |->
        blob[4 * j - 3] + 256 * blob[4 * j - 2]
          + 65536 * blob[4 * j - 1] + 16777216 * blob[4 * j]]

\* serde_json::to_string(&point.payload)
JsonObject(m) ==
    IF Len(m) = 0 THEN "{}"
    ELSE "{\"" \o m[1][1] \o "\":\"" \o m[1][2] \o "\"}"

payload_to_string(payload) ==
    IF Len(payload) = 0 THEN "null" ELSE JsonObject(payload[1])

\* serde_json::from_str(&payload_str).unwrap_or_default(): text that is not
\* the JSON of an Option<Map> gives None.
payload_from_str(text) ==
    IF \E p \in PayloadPool : payload_to_string(p) = text
    THEN CHOOSE p \in PayloadPool : payload_to_string(p) = text
    ELSE NoneP

\* `point.id as i64`: the wrapping cast of add_point.
AsI64(id) == IF id > I64Max THEN id - 2 ^ IdBits ELSE id

\* params![id] with id: u64: rusqlite refuses a u64 above i64::MAX.
ToSqlU64Ok(id) == id <= I64Max

\* row.get::<_, u64>(0): rusqlite refuses a negative integer.
FromSqlU64Ok(rowid) == rowid >= 0

\* ids.iter().map(|id| id.to_string()).join(","), as read back by SQLite in
\* `rowid in (...)`: the rowids the list can match.  A literal above
\* i64::MAX is read as a REAL, which equals no rowid.
SqlIdList(ids) == {ids[i] : i \in {j \in DOMAIN ids : ids[j] <= I64Max}}

\* ------------------------------------------------------------------ tables

NoRows == [r \in {} |-> 0]

\* A name of the catalogue: no table, a vss0 virtual table (rows: rowid ->
\* vector of `dim` floats) or an ordinary table (rows: rowid -> payload TEXT).
NoTable == [kind |-> "none", dim |-> 0, rows |-> NoRows]

EmptyVss(size) == [kind |-> "vss", dim |-> size, rows |-> NoRows]

EmptyPlain == [kind |-> "plain", dim |-> 0, rows |-> NoRows]

\* CREATE VIRTUAL TABLE IF NOT EXISTS {name} USING vss0(point({size}))
SqlCreateVss(t, n, size) ==
    IF t[n].kind = "none" THEN [t EXCEPT ![n] = EmptyVss(size)] ELSE t

\* CREATE TABLE IF NOT EXISTS {name}_payload (rowid INTEGER PRIMARY KEY, payload TEXT)
SqlCreatePlain(t, n) ==
    IF t[n].kind = "none" THEN [t EXCEPT ![n] = EmptyPlain] ELSE t

\* A DROP TABLE that leaves the table and its rows in place.
SqlDropNothing(t, n) == t

\* DROP TABLE IF EXISTS {n}
SqlDrop(t, n) == [t EXCEPT ![n] = NoTable]

\* A DELETE without its WHERE clause: every row goes.
SqlDeleteAll(t, n, rowids) == [t EXCEPT ![n].rows = NoRows]

\* DELETE FROM {n} WHERE rowid in ({ids}), on a table that exists
SqlDelete(t, n, rowids) ==
    [t EXCEPT ![n].rows = [r \in (DOMAIN t[n].rows) \ rowids |-> t[n].rows[r]]]

\* INSERT [OR REPLACE] of one row
SqlPut(t, n, rowid, cell) ==
    [t EXCEPT ![n].rows =
        [r \in (DOMAIN t[n].rows) \cup {rowid} |->
            IF r = rowid THEN cell ELSE t[n].rows[r]]]

\* The error texts of rusqlite the handlers tell apart or pass on.
ErrInTxn == "cannot start a transaction within a transaction"

ErrNoTable == "no such table"

ErrNoColumn == "no such column"

ErrConstraint == "UNIQUE constraint failed"

ErrDimension == "dimension mismatch"

ErrToSql == "ToSqlConversionFailure"

ErrNoRows == "QueryReturnedNoRows"

\* Preparing a statement that names the table and its `point` column.
PrepareVss(t, n) ==
    IF t[n].kind = "none" THEN ErrNoTable
    ELSE IF t[n].kind # "vss" THEN ErrNoColumn ELSE ""

\* Preparing INSERT ... INTO {n}(rowid,payload).
PreparePlain(t, n) ==
    IF t[n].kind = "none" THEN ErrNoTable
    ELSE IF t[n].kind # "plain" THEN ErrNoColumn ELSE ""

\* Preparing a statement that names the table only (SELECT *, COUNT(*), DELETE).
PrepareAny(t, n) == IF t[n].kind = "none" THEN ErrNoTable ELSE ""

\* ------------------------------------------------------------------ results

\* rusqlite::Result<T> of a storage function, or the panic of an unwrap().
Ok(ids, points, count) ==
    [tag |-> "Ok", err |-> "", ids |-> ids, points |-> points, count |-> count]

OkUnit == Ok(<<>>, <<>>, 0)

Err(e) == [tag |-> "Err", err |-> e, ids |-> <<>>, points |-> <<>>, count |-> 0]

Panic(e) == [tag |-> "Panic", err |-> e, ids |-> <<>>, points |-> <<>>, count |-> 0]

\* What a storage function leaves: the tables, the transaction flag, the result.
Out(t, tx, res) == [t |-> t, tx |-> tx, res |-> res]

\* The orders in which a HashMap's into_iter() may yield the values S.
Orders(S) ==
    {s \in [1..Cardinality(S) -> S] :
        \A i, j \in 1..Cardinality(S) : i # j => s[i] # s[j]}

\* ------------------------------------------------------------------ store.rs

\* create_collections: execute_batch of BEGIN; CREATE VIRTUAL TABLE IF NOT
\* EXISTS; CREATE TABLE IF NOT EXISTS; COMMIT.  BEGIN fails inside a
\* transaction that an earlier failed batch left open.
create_collections(t, tx, name, size) ==
    IF tx THEN Out(t, tx, Err(ErrInTxn))
    ELSE Out(SqlCreatePlain(SqlCreateVss(t, name, size), PayloadTable(name)),
             FALSE, OkUnit)

\* get_collections_info: SELECT COUNT(*) FROM {name}
get_collections_info(t, tx, name) ==
    IF PrepareAny(t, name) # "" THEN Out(t, tx, Err(PrepareAny(t, name)))
    ELSE Out(t, tx, Ok(<<>>, <<>>, Cardinality(DOMAIN t[name].rows)))

\* add_point, the two prepare calls before the loop.
add_point_prepare(t, name) ==
    IF PrepareVss(t, name) # "" THEN PrepareVss(t, name)
    ELSE PreparePlain(t, PayloadTable(name))

\* What vss0 may store for a vector whose length is not the table's
\* dimension: add_point does not compare the two, and the index reads `dim`
\* floats from the buffer it was handed.
Resized(vec, dim) ==
    IF Len(vec) >= dim THEN {SubSeq(vec, 1, dim)}
    ELSE {vec \o pad : pad \in [1..(dim - Len(vec)) -> PadFloats]}

\* vector_stmt.execute(params![point.id as i64, raw]): the outcomes, each
\* the error ("" for none) and the tables after it.  A plain INSERT of a
\* rowid the table holds fails; a vector of another length is either refused
\* by the extension or stored resized.
add_point_vector(t, name, point) ==
    LET rowid == AsI64(point.id)
        vec == blob_to_vector(vector_to_blob(point.vector))
    IN  IF rowid \in DOMAIN t[name].rows
        THEN {[err |-> ErrConstraint, t |-> t]}
        ELSE IF Len(vec) = t[name].dim
        THEN {[err |-> "", t |-> SqlPut(t, name, rowid, vec)]}
        ELSE {[err |-> ErrDimension, t |-> t]}
             \cup {[err |-> "", t |-> SqlPut(t, name, rowid, w)] :
                      w \in Resized(vec, t[name].dim)}

\* payload_stmt.execute(params![point.id as i64, payload]): INSERT OR REPLACE
add_point_payload(t, name, point) ==
    SqlPut(t, PayloadTable(name), AsI64(point.id), payload_to_string(point.payload))

\* The rows of the payload table the `rowid in (...)` list selects, as the
\* (id, payload) pairs the row closure yields without an error.
PayloadRows(t, n, rowids) ==
    IF t[n].kind # "plain" THEN {}
    ELSE {<<r, payload_from_str(t[n].rows[r])>> :
             r \in {x \in (DOMAIN t[n].rows) \cap rowids : FromSqlU64Ok(x)}}

\* The payload the second loop leaves on the point with this id.
PayloadOf(pairs, id) ==
    IF \E pr \in pairs : pr[1] = id
    THEN (CHOOSE pr \in pairs : pr[1] = id)[2]
    ELSE NoneP

\* get_points: both prepare calls are unwrapped; the points come out of a
\* HashMap in any order.
get_points(t, tx, name, ids) ==
    IF PrepareVss(t, name) # "" THEN {Out(t, tx, Panic(PrepareVss(t, name)))}
    ELSE IF PrepareAny(t, PayloadTable(name)) # ""
    THEN {Out(t, tx, Panic(PrepareAny(t, PayloadTable(name))))}
    ELSE
      LET hit == {r \in (DOMAIN t[name].rows) \cap SqlIdList(ids) : FromSqlU64Ok(r)}
          pays == PayloadRows(t, PayloadTable(name), SqlIdList(ids))
          map == {[id |-> r,
                   vector |-> blob_to_vector(vector_to_blob(t[name].rows[r])),
                   payload |-> PayloadOf(pays, r)] : r \in hit}
      IN  {Out(t, tx, Ok(<<>>, s, 0)) : s \in Orders(map)}

\* get_point
get_point(t, tx, name, id) ==
    IF PrepareVss(t, name) # "" THEN Out(t, tx, Err(PrepareVss(t, name)))
    ELSE IF PrepareAny(t, PayloadTable(name)) # ""
    THEN Out(t, tx, Err(PrepareAny(t, PayloadTable(name))))
    ELSE IF ~ToSqlU64Ok(id) THEN Out(t, tx, Err(ErrToSql))
    ELSE IF id \notin DOMAIN t[name].rows THEN Out(t, tx, Err(ErrNoRows))
    ELSE IF id \notin DOMAIN t[PayloadTable(name)].rows THEN Out(t, tx, Err(ErrNoRows))
    ELSE IF t[PayloadTable(name)].kind # "plain" THEN Out(t, tx, Err(ErrNoColumn))
    ELSE Out(t, tx,
             Ok(<<>>,
                <<[id |-> id,
                   vector |-> blob_to_vector(vector_to_blob(t[name].rows[id])),
                   payload |-> payload_from_str(t[PayloadTable(name)].rows[id])]>>,
                0))

\* The `distance` column of vss0: the squared L2 distance of the flat index.
RECURSIVE SumSq(_, _, _)
SumSq(q, v, i) ==
    IF i = 0 THEN 0 ELSE (q[i] - v[i]) * (q[i] - v[i]) + SumSq(q, v, i - 1)

Distance(q, v) == SumSq(q, v, Len(v))

MinOf(x, y) == IF x <= y THEN x ELSE y

\* SELECT rowid, ..., distance FROM {name} WHERE vss_search(point, ?1)
\* ORDER BY distance LIMIT ?2: the row sequences SQLite may yield, nearest
\* first, equal distances in any order.  A query vector of another length
\* makes vss_search fail when the statement is first stepped: no row.
vss_search(tbl, q, limit) ==
    IF Len(q) # tbl.dim THEN {<<>>}
    ELSE
      LET R == DOMAIN tbl.rows
          m == MinOf(limit, Cardinality(R))
          d(r) == Distance(q, tbl.rows[r])
      IN  {s \in [1..m -> R] :
             /\ \A i, j \in 1..m : i # j => s[i] # s[j]
             /\ \A i, j \in 1..m : i < j => d(s[i]) <= d(s[j])
             /\ \A i \in 1..m : \A r \in R \ {s[j] : j \in 1..m} : d(s[i]) <= d(r)}

\* search_points: rows whose closure fails (a rowid that is no u64, the
\* error of vss_search) are skipped by `if let Ok`; the rest go through a
\* HashMap and come out in any order.
search_points(t, tx, name, vector, limit) ==
    IF PrepareVss(t, name) # "" THEN {Out(t, tx, Err(PrepareVss(t, name)))}
    ELSE IF PrepareAny(t, PayloadTable(name)) # ""
    THEN {Out(t, tx, Err(PrepareAny(t, PayloadTable(name))))}
    ELSE
      LET q == blob_to_vector(vector_to_blob(vector))
      IN  UNION {
            LET keys == {s[i] : i \in {j \in DOMAIN s : FromSqlU64Ok(s[j])}}
                pays == PayloadRows(t, PayloadTable(name), keys)
                map == {[id |-> r,
                         vector |-> blob_to_vector(vector_to_blob(t[name].rows[r])),
                         payload |-> PayloadOf(pays, r),
                         score |-> Distance(q, t[name].rows[r])] : r \in keys}
            IN  {Out(t, tx, Ok(<<>>, o, 0)) : o \in Orders(map)}
            : s \in vss_search(t[name], q, limit)}

\* delete_points: execute_batch of BEGIN; DELETE; DELETE; COMMIT.  The batch
\* stops at the first statement that fails, after BEGIN and without COMMIT
\* or ROLLBACK: the transaction stays open and the statements before the
\* failing one stay applied.
delete_points(t, tx, name, ids) ==
    IF tx THEN Out(t, tx, Err(ErrInTxn))
    ELSE IF PrepareAny(t, name) # "" THEN Out(t, TRUE, Err(PrepareAny(t, name)))
    ELSE
      LET t1 == SqlDelete(t, name, SqlIdList(ids))
      IN  IF PrepareAny(t1, PayloadTable(name)) # ""
          THEN Out(t1, TRUE, Err(PrepareAny(t1, PayloadTable(name))))
          ELSE Out(SqlDelete(t1, PayloadTable(name), SqlIdList(ids)), FALSE, OkUnit)

\* A delete_collection whose DROP TABLE has no IF EXISTS: a missing table is an
\* error, met after BEGIN.
delete_collection_strict(t, tx, name) ==
    IF tx THEN Out(t, tx, Err(ErrInTxn))
    ELSE IF t[name].kind = "none" THEN Out(t, TRUE, Err(ErrNoTable))
    ELSE IF t[PayloadTable(name)].kind = "none"
    THEN Out(SqlDrop(t, name), TRUE, Err(ErrNoTable))
    ELSE Out(SqlDrop(SqlDrop(t, name), PayloadTable(name)), FALSE, OkUnit)

\* delete_collection: execute_batch of BEGIN; DROP TABLE IF EXISTS; DROP TABLE
\* IF EXISTS; COMMIT.
delete_collection(t, tx, name) ==
    IF tx THEN Out(t, tx, Err(ErrInTxn))
    ELSE Out(SqlDrop(SqlDrop(t, name), PayloadTable(name)), FALSE, OkUnit)

\* ------------------------------------------------------------------ requests

\* Longest `points` array of an upsert request.
MaxBatch == 2

Point(id, vector, payload) == [id |-> id, vector |-> vector, payload |-> payload]

\* The points of upsert requests: id 1, id 2 with two contents, one of them
\* a vector too short for dimension 2, and an id above i64::MAX.
PointPool ==
    { Point(1, <<0, 1>>, SomeP(CityMap("Berlin"))),
      Point(2, <<2, 0>>, NoneP),
      Point(2, <<1>>, SomeP(EmptyMap)),
      Point(BigId, <<0, 1>>, SomeP(EmptyMap)) }

Batches == UNION {[1..n -> PointPool] : n \in 0..MaxBatch}

\* The `ids` of get-many and the `points` of delete requests.
IdLists == {<<>>, <<1>>, <<1, 2>>, <<2, BigId>>}

NoReq ==
    [op |-> "none", name |-> "", size |-> 0, points |-> <<>>, ids |-> <<>>,
     id |-> 0, vector |-> <<>>, limit |-> 0, i |-> 0]

\* The APIResult envelope and the status code; `some` is `result` being
\* true or Some(..).
Response(status, some, ids, points, count, error) ==
    [kind |-> "response", status |-> status, some |-> some, ids |-> ids,
     points |-> points, count |-> count, error |-> error]

NoResp ==
    [kind |-> "none", status |-> 0, some |-> FALSE, ids |-> <<>>,
     points |-> <<>>, count |-> 0, error |-> ""]

\* The task panicked: the connection is closed without a response.
Aborted(e) == [NoResp EXCEPT !.kind = "panic", !.error = e]

\* ------------------------------------------------------------------ state

VARIABLES
    tables,   \* the catalogue: table name -> table
    inTxn,    \* the connection is inside a transaction no COMMIT ended
    lock,     \* the holder of the Mutex around the connection, 0 if free
    pc,       \* each task's position in its handler
    req,      \* each task's request, once its handler runs
    resp,     \* each task's response, once built
    snap      \* history: the catalogue when each task's storage call began

vars == <<tables, inTxn, lock, pc, req, resp, snap>>

NoTables == [n \in TableNames |-> NoTable]

Init ==
    /\ tables = NoTables
    /\ inTxn = FALSE
    /\ lock = 0
    /\ pc = [p \in Procs |-> "idle"]
    /\ req = [p \in Procs |-> NoReq]
    /\ resp = [p \in Procs |-> NoResp]
    /\ snap = [p \in Procs |-> NoTables]

\* ------------------------------------------------------------------ service.rs

\* A request is routed to its handler.
Arrive(p) ==
    /\ pc[p] = "idle"
    /\ pc' = [pc EXCEPT ![p] = "wait"]
    /\ UNCHANGED <<tables, inTxn, lock, req, resp, snap>>

\* A lock that never makes a task wait.
CanLockAlways == TRUE

\* db.lock().await completes only while no task holds the guard.
CanLock == lock = 0

Lock(p) ==
    /\ pc[p] = "wait"
    /\ CanLock
    /\ lock' = p
    /\ pc' = [pc EXCEPT ![p] = "locked"]
    /\ UNCHANGED <<tables, inTxn, req, resp, snap>>

\* The handler's storage call has returned `o` and its response is built;
\* the guard lives until the handler returns.
Finish(p, r, o, response) ==
    /\ tables' = o.t
    /\ inTxn' = o.tx
    /\ req' = [req EXCEPT ![p] = r]
    /\ resp' = [resp EXCEPT ![p] = response]
    /\ pc' = [pc EXCEPT ![p] = "done"]

\* PUT /collections/:name
CreateCollections(p) ==
    /\ pc[p] = "locked"
    /\ \E name \in CollNames, size \in Sizes :
         LET o == create_collections(tables, inTxn, name, size)
             r == [NoReq EXCEPT !.op = "create", !.name = name, !.size = size]
         IN  Finish(p, r, o,
                    IF o.res.tag = "Err"
                    THEN Response(409, FALSE, <<>>, <<>>, 0, o.res.err)
                    ELSE Response(200, TRUE, <<>>, <<>>, 0, ""))
    /\ snap' = [snap EXCEPT ![p] = tables]
    /\ UNCHANGED lock

\* GET /collections/:name
GetCollectionsInfo(p) ==
    /\ pc[p] = "locked"
    /\ \E name \in CollNames :
         LET o == get_collections_info(tables, inTxn, name)
             r == [NoReq EXCEPT !.op = "info", !.name = name]
         IN  Finish(p, r, o,
                    IF o.res.tag = "Ok"
                    THEN Response(200, TRUE, <<>>, <<>>, o.res.count, "")
                    ELSE Response(500, TRUE, <<>>, <<>>, 0, o.res.err))
    /\ snap' = [snap EXCEPT ![p] = tables]
    /\ UNCHANGED lock

\* PUT /collections/:name/points: add_points calls add_point, which prepares
\* its two statements and then runs them point by point, each statement
\* committing by itself.
AddPoints(p) ==
    /\ pc[p] = "locked"
    /\ \E name \in CollNames, batch \in Batches :
         LET e == add_point_prepare(tables, name)
             r == [NoReq EXCEPT !.op = "upsert", !.name = name,
                                !.points = batch, !.i = 1]
         IN  IF e # ""
             THEN Finish(p, r, Out(tables, inTxn, Err(e)),
                         Response(500, FALSE, <<>>, <<>>, 0, e))
             ELSE IF Len(batch) = 0
             THEN Finish(p, r, Out(tables, inTxn, OkUnit),
                         Response(200, TRUE, <<>>, <<>>, 0, ""))
             ELSE /\ req' = [req EXCEPT ![p] = r]
                  /\ pc' = [pc EXCEPT ![p] = "vector"]
                  /\ UNCHANGED <<tables, inTxn, resp>>
    /\ snap' = [snap EXCEPT ![p] = tables]
    /\ UNCHANGED lock

\* The loop body's first statement, for point i.
AddPointVector(p) ==
    /\ pc[p] = "vector"
    /\ \E o \in add_point_vector(tables, req[p].name, req[p].points[req[p].i]) :
         IF o.err # ""
         THEN Finish(p, req[p], Out(o.t, inTxn, Err(o.err)),
                     Response(500, FALSE, <<>>, <<>>, 0, o.err))
         ELSE /\ tables' = o.t
              /\ pc' = [pc EXCEPT ![p] = "payload"]
              /\ UNCHANGED <<inTxn, req, resp>>
    /\ UNCHANGED <<lock, snap>>

\* The ids of the first n points, last first.
SuccessIdsReversed(points, n) == [j \in 1..n |-> points[n + 1 - j].id]

\* The ids add_point has pushed to success_id after n points.
SuccessIds(points, n) == [j \in 1..n |-> points[j].id]

\* The loop body's second statement and success_id.push, for point i.
AddPointPayload(p) ==
    /\ pc[p] = "payload"
    /\ LET t2 == add_point_payload(tables, req[p].name, req[p].points[req[p].i])
       IN  IF req[p].i = Len(req[p].points)
           THEN Finish(p, req[p], Out(t2, inTxn, OkUnit),
                       Response(200, TRUE, SuccessIds(req[p].points, req[p].i),
                                <<>>, 0, ""))
           ELSE /\ tables' = t2
                /\ req' = [req EXCEPT ![p].i = @ + 1]
                /\ pc' = [pc EXCEPT ![p] = "vector"]
                /\ UNCHANGED <<inTxn, resp>>
    /\ UNCHANGED <<lock, snap>>

\* .optional(): QueryReturnedNoRows becomes Ok(None).
IsNone(res) == res.tag = "Err" /\ res.err = ErrNoRows

\* POST /collections/:name/points.  The guard is dropped at the end of the
\* block that calls the store, or by the unwinding of a panic in it; what the
\* handler does after that touches nothing shared, so the drop, the building
\* of the response and the return are the one step Return.
GetPoints(p) ==
    /\ pc[p] = "locked"
    /\ \E name \in CollNames, ids \in IdLists :
         \E o \in get_points(tables, inTxn, name, ids) :
           Finish(p, [NoReq EXCEPT !.op = "getMany", !.name = name, !.ids = ids], o,
                  IF o.res.tag = "Panic" THEN Aborted(o.res.err)
                  ELSE IF o.res.tag = "Ok"
                  THEN Response(200, TRUE, <<>>, o.res.points, 0, "")
                  ELSE IF IsNone(o.res)
                  THEN Response(200, TRUE, <<>>, <<>>, 0, "")
                  ELSE Response(500, FALSE, <<>>, <<>>, 0, o.res.err))
    /\ snap' = [snap EXCEPT ![p] = tables]
    /\ UNCHANGED lock

\* GET /collections/:name/points/:point_id
GetPoint(p) ==
    /\ pc[p] = "locked"
    /\ \E name \in CollNames, id \in Ids :
         LET o == get_point(tables, inTxn, name, id)
         IN  Finish(p, [NoReq EXCEPT !.op = "getOne", !.name = name, !.id = id], o,
                    IF o.res.tag = "Ok"
                    THEN Response(200, TRUE, <<>>, o.res.points, 0, "")
                    ELSE IF IsNone(o.res)
                    THEN Response(404, FALSE, <<>>, <<>>, 0, "Not found")
                    ELSE Response(500, FALSE, <<>>, <<>>, 0, o.res.err))
    /\ snap' = [snap EXCEPT ![p] = tables]
    /\ UNCHANGED lock

\* POST /collections/:name/points/search
SearchPoints(p) ==
    /\ pc[p] = "locked"
    /\ \E name \in CollNames, vector \in QueryPool, limit \in Limits :
         \E o \in search_points(tables, inTxn, name, vector, limit) :
           Finish(p, [NoReq EXCEPT !.op = "search", !.name = name,
                                   !.vector = vector, !.limit = limit], o,
                  IF o.res.tag = "Ok"
                  THEN Response(200, TRUE, <<>>, o.res.points, 0, "")
                  ELSE IF IsNone(o.res)
                  THEN Response(200, TRUE, <<>>, <<>>, 0, "")
                  ELSE Response(500, FALSE, <<>>, <<>>, 0, o.res.err))
    /\ snap' = [snap EXCEPT ![p] = tables]
    /\ UNCHANGED lock

\* POST /collections/:name/points/delete
DeletePoints(p) ==
    /\ pc[p] = "locked"
    /\ \E name \in CollNames, ids \in IdLists :
         LET o == delete_points(tables, inTxn, name, ids)
         IN  Finish(p, [NoReq EXCEPT !.op = "delete", !.name = name, !.ids = ids], o,
                    IF o.res.tag = "Ok"
                    THEN Response(200, TRUE, <<>>, <<>>, 0, "")
                    ELSE Response(500, FALSE, <<>>, <<>>, 0, o.res.err))
    /\ snap' = [snap EXCEPT ![p] = tables]
    /\ UNCHANGED lock

\* DELETE /collections/:name
DeleteCollection(p) ==
    /\ pc[p] = "locked"
    /\ \E name \in CollNames :
         LET o == delete_collection(tables, inTxn, name)
         IN  Finish(p, [NoReq EXCEPT !.op = "drop", !.name = name], o,
                    IF o.res.tag = "Ok"
                    THEN Response(200, TRUE, <<>>, <<>>, 0, "")
                    ELSE Response(500, FALSE, <<>>, <<>>, 0, o.res.err))
    /\ snap' = [snap EXCEPT ![p] = tables]
    /\ UNCHANGED lock

\* A return that drops the guard only when the handler has a response: a
\* task that panicked keeps the lock for ever.
ReturnLeaksOnPanic(p) ==
    /\ pc[p] = "done"
    /\ lock' = IF lock = p /\ resp[p].kind # "panic" THEN 0 ELSE lock
    /\ pc' = [pc EXCEPT ![p] = "idle"]
    /\ req' = [req EXCEPT ![p] = NoReq]
    /\ resp' = [resp EXCEPT ![p] = NoResp]
    /\ snap' = [snap EXCEPT ![p] = NoTables]
    /\ UNCHANGED <<tables, inTxn>>

\* The handler returns (or its task unwinds): the guard is dropped and the
\* response, if there is one, is sent.
Return(p) ==
    /\ pc[p] = "done"
    /\ lock' = IF lock = p THEN 0 ELSE lock
    /\ pc' = [pc EXCEPT ![p] = "idle"]
    /\ req' = [req EXCEPT ![p] = NoReq]
    /\ resp' = [resp EXCEPT ![p] = NoResp]
    /\ snap' = [snap EXCEPT ![p] = NoTables]
    /\ UNCHANGED <<tables, inTxn>>

Next ==
    \E p \in Procs :
        \/ Arrive(p)
        \/ Lock(p)
        \/ CreateCollections(p)
        \/ GetCollectionsInfo(p)
        \/ AddPoints(p)
        \/ AddPointVector(p)
        \/ AddPointPayload(p)
        \/ GetPoints(p)
        \/ GetPoint(p)
        \/ SearchPoints(p)
        \/ DeletePoints(p)
        \/ DeleteCollection(p)
        \/ Return(p)

Spec == Init /\ [][Next]_vars

\* ------------------------------------------------------------------ claims

\* The two states of a collection: both of its tables are there, as create
\* makes them, or neither is.
Active(t, name) == t[name].kind = "vss" /\ t[PayloadTable(name)].kind = "plain"

Absent(t, name) == t[name].kind = "none" /\ t[PayloadTable(name)].kind = "none"

\* Task p's handler for `op` has its response.
Done(p, op) == pc[p] = "done" /\ req[p].op = op

\* The point has the collection's dimension and an id SQLite can hold.
WellFormed(t, name, point) ==
    Len(point.vector) = t[name].dim /\ point.id <= I64Max

\* Every vector the collection holds is one a request sent, as sent.
StoredAsSent(t, name) ==
    \A r \in DOMAIN t[name].rows : t[name].rows[r] \in {pt.vector : pt \in PointPool}

\* C1: search on an Active collection returns its results by non-decreasing
\* score: of two adjacent results the first has the smaller or equal score.
C1_SearchOrdered ==
    \A p \in Procs :
        (/\ Done(p, "search")
         /\ Active(snap[p], req[p].name)
         /\ StoredAsSent(snap[p], req[p].name)
         /\ resp[p].status = 200)
        => \A i \in 1..(Len(resp[p].points) - 1) :
               resp[p].points[i].score <= resp[p].points[i + 1].score

\* C2: upserting a well-formed point whose id the Active collection already
\* holds succeeds, and getOne then returns exactly that point.
C2_ReupsertReplaces ==
    \A p \in Procs :
        (/\ Done(p, "upsert")
         /\ Len(req[p].points) = 1
         /\ Active(snap[p], req[p].name)
         /\ StoredAsSent(snap[p], req[p].name)
         /\ WellFormed(snap[p], req[p].name, req[p].points[1])
         /\ req[p].points[1].id \in DOMAIN snap[p][req[p].name].rows)
        => /\ resp[p].status = 200
           /\ get_point(tables, inTxn, req[p].name, req[p].points[1].id).res.points
                = <<req[p].points[1]>>

\* C3: when no operation is under way, every Active collection holds a vector
\* for an id exactly if it holds a payload record for it.
C3_VectorIffPayload ==
    (\A p \in Procs : pc[p] \notin {"vector", "payload"})
    => \A name \in CollNames :
           (Active(tables, name) /\ StoredAsSent(tables, name))
           => DOMAIN tables[name].rows = DOMAIN tables[PayloadTable(name)].rows

\* C4: an upsert into an Active collection that returns an error has written
\* none of its points: the tables are what they were before the call.
C4_FailedUpsertWritesNothing ==
    \A p \in Procs :
        (/\ Done(p, "upsert")
         /\ Active(snap[p], req[p].name)
         /\ StoredAsSent(snap[p], req[p].name)
         /\ \A i \in DOMAIN req[p].points :
                WellFormed(snap[p], req[p].name, req[p].points[i])
         /\ resp[p].status # 200)
        => tables = snap[p]

\* C5: create of a collection that is Active answers 409 with result false
\* and leaves the tables unchanged.
C5_CreateExistingConflicts ==
    \A p \in Procs :
        (Done(p, "create") /\ Active(snap[p], req[p].name))
        => /\ resp[p].status = 409
           /\ ~resp[p].some
           /\ tables = snap[p]

\* C6: info, upsert, getMany, getOne, delete points and search on an Absent
\* collection answer with an error response: never a success, never no
\* response at all.
C6_AbsentIsAnError ==
    \A p \in Procs :
        (/\ pc[p] = "done"
         /\ req[p].op \in {"info", "upsert", "getMany", "getOne", "delete", "search"}
         /\ Absent(snap[p], req[p].name))
        => /\ resp[p].kind = "response"
           /\ resp[p].status \in {404, 500}

\* C7, as claimed: delete of an Absent collection does not succeed.
C7_DeleteAbsentFails ==
    \A p \in Procs :
        (Done(p, "drop") /\ Absent(snap[p], req[p].name)) => resp[p].status # 200

\* C7, amended: delete(name) succeeds whether the collection is Absent or
\* Active and leaves it Absent; it fails, with 500 and nothing changed, only
\* when the connection is inside a transaction that a failed batch left open.
C7_DeleteIsIdempotent ==
    \A p \in Procs :
        Done(p, "drop")
        => /\ resp[p].status = 200 <=> ~inTxn
           /\ resp[p].status = 200 => Absent(tables, req[p].name)
           /\ resp[p].status # 200 => (resp[p].status = 500 /\ tables = snap[p])

C7_Witness ==
    \E p \in Procs :
        Done(p, "drop") /\ Absent(snap[p], req[p].name) /\ resp[p].status = 200

\* C8: after a successful upsert, getOne of each of its points whose vector
\* has the collection's dimension returns the same id, vector and payload.
C8_UpsertGetRoundTrip ==
    \A p \in Procs :
        (/\ Done(p, "upsert")
         /\ StoredAsSent(snap[p], req[p].name)
         /\ resp[p].status = 200)
        => \A i \in DOMAIN req[p].points :
               Len(req[p].points[i].vector) = tables[req[p].name].dim
               => get_point(tables, inTxn, req[p].name, req[p].points[i].id).res
                    = Ok(<<>>, <<req[p].points[i]>>, 0)

\* A task is inside a storage call: between the lock and the call's return.
Executing(p) == pc[p] \in {"locked", "vector", "payload"}

\* C9: at most one task is inside a storage call, and it holds the lock; a
\* task that holds a response not yet returned still holds it too.
C9_OneStoreOperationAtATime ==
    \A p \in Procs :
        (Executing(p) \/ pc[p] = "done")
        => /\ lock = p
           /\ \A q \in Procs \ {p} : ~Executing(q) /\ pc[q] # "done"

C9_Witness ==
    \E p, q \in Procs : pc[p] = "payload" /\ pc[q] = "wait" /\ req[p].i = 2

\* C10: every point getOne, getMany or search returns carries the vector and
\* the payload that one upsert of that id wrote together.
C10_ReadersSeeWholePoints ==
    \A p \in Procs :
        (/\ pc[p] = "done"
         /\ req[p].op \in {"getOne", "getMany", "search"}
         /\ Active(snap[p], req[p].name)
         /\ StoredAsSent(snap[p], req[p].name)
         /\ resp[p].status = 200)
        => \A i \in DOMAIN resp[p].points :
               \E pt \in PointPool :
                   /\ pt.id = resp[p].points[i].id
                   /\ pt.payload = resp[p].points[i].payload
                   /\ pt.vector = resp[p].points[i].vector

\* C11: after a successful delete of `ids` on an Active collection, getMany of
\* the same ids returns an empty sequence and getOne of each of them is the
\* NotFound outcome (Ok(None) after .optional(), answered 404).
C11_DeletedAreGone ==
    \A p \in Procs :
        (/\ Done(p, "delete")
         /\ Active(snap[p], req[p].name)
         /\ resp[p].status = 200)
        => /\ \A o \in get_points(tables, inTxn, req[p].name, req[p].ids) :
                  o.res = Ok(<<>>, <<>>, 0)
           /\ \A i \in DOMAIN req[p].ids :
                  IsNone(get_point(tables, inTxn, req[p].name, req[p].ids[i]).res)

\* The same, for the ids SQLite can hold as a rowid.
C11_DeletedAreGoneI64 ==
    \A p \in Procs :
        (/\ Done(p, "delete")
         /\ Active(snap[p], req[p].name)
         /\ resp[p].status = 200)
        => /\ \A o \in get_points(tables, inTxn, req[p].name, req[p].ids) :
                  o.res = Ok(<<>>, <<>>, 0)
           /\ \A i \in DOMAIN req[p].ids :
                  req[p].ids[i] <= I64Max
                  => IsNone(get_point(tables, inTxn, req[p].name, req[p].ids[i]).res)

\* The collection holds a point for this id: the vector table has the rowid
\* add_point writes for it.
Stored(t, name, id) == AsI64(id) \in DOMAIN t[name].rows

\* The point the collection holds for a stored id.
StoredPoint(t, name, id) ==
    [id |-> id,
     vector |-> t[name].rows[AsI64(id)],
     payload |-> IF AsI64(id) \in DOMAIN t[PayloadTable(name)].rows
                 THEN payload_from_str(t[PayloadTable(name)].rows[AsI64(id)])
                 ELSE NoneP]

\* The elements of a sequence.
Range(s) == {s[i] : i \in DOMAIN s}

\* C12: getMany(ids) on an Active collection answers 200 with exactly the
\* points whose id is requested and stored, each once, with the stored vector
\* and payload; ids that are not stored are left out.
C12_GetManyExact ==
    \A p \in Procs :
        (Done(p, "getMany") /\ Active(snap[p], req[p].name))
        => LET want == {StoredPoint(tables, req[p].name, id) :
                           id \in {x \in Range(req[p].ids) :
                                      Stored(tables, req[p].name, x)}}
           IN  /\ resp[p].status = 200
               /\ Range(resp[p].points) = want
               /\ Len(resp[p].points) = Cardinality(want)

\* The same, for the requested ids SQLite can hold as a rowid.
C12_GetManyExactI64 ==
    \A p \in Procs :
        (Done(p, "getMany") /\ Active(snap[p], req[p].name))
        => LET want == {StoredPoint(tables, req[p].name, id) :
                           id \in {x \in Range(req[p].ids) :
                                      x <= I64Max /\ Stored(tables, req[p].name, x)}}
           IN  /\ resp[p].status = 200
               /\ Range(resp[p].points) = want
               /\ Len(resp[p].points) = Cardinality(want)

\* C13: getOne(id) on an Active collection that holds no point with that id
\* answers 404 with no result and an error message, and changes nothing.
C13_GetOneMissingIs404 ==
    \A p \in Procs :
        (/\ Done(p, "getOne")
         /\ Active(snap[p], req[p].name)
         /\ ~Stored(snap[p], req[p].name, req[p].id))
        => /\ resp[p].status = 404
           /\ ~resp[p].some
           /\ resp[p].error # ""
           /\ tables = snap[p]

\* The same, for the ids SQLite can hold as a rowid.
C13_GetOneMissingIs404I64 ==
    \A p \in Procs :
        (/\ Done(p, "getOne")
         /\ Active(snap[p], req[p].name)
         /\ req[p].id <= I64Max
         /\ ~Stored(snap[p], req[p].name, req[p].id))
        => /\ resp[p].status = 404
           /\ ~resp[p].some
           /\ resp[p].error # ""
           /\ tables = snap[p]

\* C14: search(q, k) with a query of the collection's dimension, on an Active
\* collection of n points, answers 200 with exactly min(k, n) results, each a
\* distinct stored id; so none when k = 0 or n = 0.
C14_SearchCount ==
    \A p \in Procs :
        (/\ Done(p, "search")
         /\ Active(snap[p], req[p].name)
         /\ Len(req[p].vector) = snap[p][req[p].name].dim)
        => LET n == Cardinality(DOMAIN tables[req[p].name].rows)
               got == {resp[p].points[i].id : i \in DOMAIN resp[p].points}
           IN  /\ resp[p].status = 200
               /\ Len(resp[p].points) = MinOf(req[p].limit, n)
               /\ Cardinality(got) = Len(resp[p].points)
               /\ \A id \in got : Stored(tables, req[p].name, id)

\* The same, for a collection all of whose ids SQLite can hold as a rowid.
C14_SearchCountI64 ==
    \A p \in Procs :
        (/\ Done(p, "search")
         /\ Active(snap[p], req[p].name)
         /\ Len(req[p].vector) = snap[p][req[p].name].dim
         /\ \A r \in DOMAIN snap[p][req[p].name].rows : FromSqlU64Ok(r))
        => LET n == Cardinality(DOMAIN tables[req[p].name].rows)
               got == {resp[p].points[i].id : i \in DOMAIN resp[p].points}
           IN  /\ resp[p].status = 200
               /\ Len(resp[p].points) = MinOf(req[p].limit, n)
               /\ Cardinality(got) = Len(resp[p].points)
               /\ \A id \in got : Stored(tables, req[p].name, id)

\* C15: after a successful delete(name), create(name, size) succeeds and the
\* collection is empty: info counts 0 points and getOne, getMany and search
\* return no point, whatever the collection held before the delete.
C15_RecreatedIsEmpty ==
    \A p \in Procs :
        (Done(p, "drop") /\ resp[p].status = 200)
        => \A size \in Sizes :
             LET name == req[p].name
                 c == create_collections(tables, inTxn, name, size)
             IN  /\ c.res.tag = "Ok"
                 /\ Active(c.t, name)
                 /\ get_collections_info(c.t, c.tx, name).res = Ok(<<>>, <<>>, 0)
                 /\ \A id \in Ids : get_point(c.t, c.tx, name, id).res.tag # "Ok"
                 /\ \A ids \in IdLists :
                        \A o \in get_points(c.t, c.tx, name, ids) :
                            o.res = Ok(<<>>, <<>>, 0)
                 /\ \A q \in QueryPool, k \in Limits :
                        \A o \in search_points(c.t, c.tx, name, q, k) :
                            o.res = Ok(<<>>, <<>>, 0)

\* A collection that holds points has been deleted.
C15_Witness ==
    \E p \in Procs :
        /\ Done(p, "drop")
        /\ resp[p].status = 200
        /\ Active(snap[p], req[p].name)
        /\ DOMAIN snap[p][req[p].name].rows # {}
        /\ DOMAIN snap[p][PayloadTable(req[p].name)].rows # {}

\* C16: create(name, size) of an Absent collection answers 200 with result
\* true, the collection is Active, and info then counts 0 points.
C16_CreateAbsentSucceeds ==
    \A p \in Procs :
        (Done(p, "create") /\ Absent(snap[p], req[p].name))
        => /\ resp[p].status = 200
           /\ resp[p].some
           /\ Active(tables, req[p].name)
           /\ get_collections_info(tables, inTxn, req[p].name).res = Ok(<<>>, <<>>, 0)

\* The same, while no failed batch has left a transaction open (create leaves
\* the flag as it found it unless it commits).
C16_CreateAbsentSucceedsNoTxn ==
    \A p \in Procs :
        (Done(p, "create") /\ Absent(snap[p], req[p].name) /\ ~inTxn)
        => /\ resp[p].status = 200
           /\ resp[p].some
           /\ Active(tables, req[p].name)
           /\ get_collections_info(tables, inTxn, req[p].name).res = Ok(<<>>, <<>>, 0)

\* C17: on an Active collection, a search whose query vector has another
\* length than the collection's dimension, and an upsert holding a point
\* whose vector has another length, each answer with an error, not with 200.
C17_DimensionMismatchIsAnError ==
    \A p \in Procs :
        /\ (/\ Done(p, "search")
            /\ Active(snap[p], req[p].name)
            /\ Len(req[p].vector) # snap[p][req[p].name].dim)
           => resp[p].status # 200
        /\ (/\ Done(p, "upsert")
            /\ Active(snap[p], req[p].name)
            /\ \E i \in DOMAIN req[p].points :
                   Len(req[p].points[i].vector) # snap[p][req[p].name].dim)
           => resp[p].status # 200

\* C18: an upsert that answers 200 returns the ids of its points in the order
\* of the request: as many ids as points, the i-th the id of the i-th point.
C18_UpsertReturnsIdsInOrder ==
    \A p \in Procs :
        (Done(p, "upsert") /\ resp[p].status = 200)
        => /\ resp[p].some
           /\ Len(resp[p].ids) = Len(req[p].points)
           /\ \A i \in DOMAIN req[p].points : resp[p].ids[i] = req[p].points[i].id

\* A batch of two points with different ids has been written.
C18_Witness ==
    \E p \in Procs :
        /\ Done(p, "upsert")
        /\ resp[p].status = 200
        /\ Len(req[p].points) = 2
        /\ req[p].points[1].id # req[p].points[2].id
        /\ resp[p].ids = <<req[p].points[1].id, req[p].points[2].id>>

\* C19: on an Active collection, whether delete(ids) succeeds does not depend
\* on the ids, stored or not: it answers as a delete of no id would.  When it
\* succeeds, both tables lose the listed rowids and nothing else, so every
\* stored point whose id is not listed keeps its vector and payload and is
\* returned by getOne as before; when it fails, nothing is removed.
C19_DeleteOnlyListed ==
    \A p \in Procs :
        (Done(p, "delete") /\ Active(snap[p], req[p].name))
        => LET name == req[p].name
               none == delete_points(snap[p], inTxn, name, <<>>)
           IN  /\ resp[p].status = 200 <=> none.res.tag = "Ok"
               /\ resp[p].status # 200 => tables = snap[p]
               /\ \A id \in Ids \ Range(req[p].ids) :
                      Stored(snap[p], name, id)
                      => /\ Stored(tables, name, id)
                         /\ StoredPoint(tables, name, id) = StoredPoint(snap[p], name, id)
                         /\ get_point(tables, inTxn, name, id).res
                              = get_point(snap[p], inTxn, name, id).res
               /\ \A n \in TableNames \ {name, PayloadTable(name)} :
                      tables[n] = snap[p][n]

\* A delete has succeeded that lists a stored id and an id that is not
\* stored, on a collection that holds another point besides.
C19_Witness ==
    \E p \in Procs :
        /\ Done(p, "delete")
        /\ Active(snap[p], req[p].name)
        /\ resp[p].status = 200
        /\ \E id \in Range(req[p].ids) : Stored(snap[p], req[p].name, id)
        /\ \E id \in Range(req[p].ids) : ~Stored(snap[p], req[p].name, id)
        /\ \E id \in Ids \ Range(req[p].ids) :
               /\ Stored(snap[p], req[p].name, id)
               /\ get_point(tables, inTxn, req[p].name, id).res.tag = "Ok"

\* What info reports for the collection, and the ids getOne succeeds for.
CountOf(t, name) == get_collections_info(t, FALSE, name).res.count

Retrievable(t, name) == {id \in Ids : get_point(t, FALSE, name, id).res.tag = "Ok"}

\* What C20 says of task p's finished request: info reports as many points
\* as there are ids getOne succeeds for; a successful upsert of one point
\* raises the count by one if the id was not stored and leaves it otherwise;
\* a successful delete lowers it by the number of listed ids that were stored.
CountFollows(p) ==
    LET name == req[p].name
    IN  /\ Done(p, "info")
           => /\ resp[p].status = 200
              /\ resp[p].count = Cardinality(Retrievable(tables, name))
        /\ (Done(p, "upsert") /\ Len(req[p].points) = 1 /\ resp[p].status = 200)
           => CountOf(tables, name)
                = CountOf(snap[p], name)
                    + (IF Stored(snap[p], name, req[p].points[1].id) THEN 0 ELSE 1)
        /\ (Done(p, "delete") /\ resp[p].status = 200)
           => CountOf(tables, name)
                = CountOf(snap[p], name)
                    - Cardinality({id \in Range(req[p].ids) : Stored(snap[p], name, id)})

\* C20: on an Active collection, point_count is the number of ids for which
\* getOne succeeds, and follows upserts and deletes one id at a time.
C20_CountIsStoredIds ==
    \A p \in Procs :
        (pc[p] = "done" /\ Active(snap[p], req[p].name)) => CountFollows(p)

\* The same, for a collection whose ids SQLite can all hold as a rowid and
\* whose two tables hold the same rowids.
C20_CountIsStoredIdsI64 ==
    \A p \in Procs :
        (/\ pc[p] = "done"
         /\ Active(snap[p], req[p].name)
         /\ \A r \in DOMAIN snap[p][req[p].name].rows : FromSqlU64Ok(r)
         /\ DOMAIN snap[p][req[p].name].rows
              = DOMAIN snap[p][PayloadTable(req[p].name)].rows
         /\ \A i \in DOMAIN req[p].points : req[p].points[i].id <= I64Max
         /\ \A i \in DOMAIN req[p].ids : req[p].ids[i] <= I64Max)
        => CountFollows(p)

\* The ids a search outcome returns.
ReturnedIds(o) == {o.res.points[i].id : i \in DOMAIN o.res.points}

\* What C21 says of task p's finished request, on the collection it names:
\* every point a search returns is stored, with the stored vector and
\* payload; after a successful delete no search returns a listed id; after a
\* successful upsert every search for all n points, with a query of the
\* collection's dimension, returns each of the batch's ids.
IndexInStep(p) ==
    LET name == req[p].name
        n == Cardinality(DOMAIN tables[name].rows)
    IN  /\ (Done(p, "search") /\ resp[p].status = 200)
           => \A i \in DOMAIN resp[p].points :
                  /\ Stored(tables, name, resp[p].points[i].id)
                  /\ resp[p].points[i].vector
                       = StoredPoint(tables, name, resp[p].points[i].id).vector
                  /\ resp[p].points[i].payload
                       = StoredPoint(tables, name, resp[p].points[i].id).payload
        /\ (Done(p, "delete") /\ resp[p].status = 200)
           => \A q \in QueryPool, k \in Limits :
                  \A o \in search_points(tables, inTxn, name, q, k) :
                      ReturnedIds(o) \cap Range(req[p].ids) = {}
        /\ (Done(p, "upsert") /\ resp[p].status = 200)
           => \A q \in {v \in QueryPool : Len(v) = tables[name].dim} :
                  \A o \in search_points(tables, inTxn, name, q, n) :
                      \A i \in DOMAIN req[p].points :
                          req[p].points[i].id \in ReturnedIds(o)

\* C21: on an Active collection the index is in step with the point store:
\* search returns stored points only, never a deleted id, and an id just
\* upserted can be returned.
C21_IndexInStep ==
    \A p \in Procs :
        (pc[p] = "done" /\ Active(snap[p], req[p].name)) => IndexInStep(p)

\* The same, for batches whose ids SQLite can all hold as a rowid.
C21_IndexInStepI64 ==
    \A p \in Procs :
        (/\ pc[p] = "done"
         /\ Active(snap[p], req[p].name)
         /\ \A i \in DOMAIN req[p].points : req[p].points[i].id <= I64Max)
        => IndexInStep(p)

\* Collection B is in t2 what it was in t1: both of its tables, rows included.
SameCollection(t1, t2, B) ==
    t2[B] = t1[B] /\ t2[PayloadTable(B)] = t1[PayloadTable(B)]

\* C22: a create, upsert, delete-points or delete-collection request on
\* collection A leaves every Active collection B of another name as it was:
\* still Active, with the same vectors and payloads.
C22_IsolatedByName ==
    \A p \in Procs :
        (pc[p] = "done" /\ req[p].op \in {"create", "upsert", "delete", "drop"})
        => \A B \in CollNames \ {req[p].name} :
               Active(snap[p], B) => SameCollection(snap[p], tables, B)

\* The same for every collection B of another name, Active or not: the
\* request changes neither of the two table names B stands for.
C22_IsolatedByNameAny ==
    \A p \in Procs :
        (pc[p] = "done" /\ req[p].op \in {"create", "upsert", "delete", "drop"})
        => \A B \in CollNames \ {req[p].name} : SameCollection(snap[p], tables, B)

\* ------------------------------------------------------------------ scheduling

\* A step of task p's handler once it holds the guard: its storage call, the
\* statements of add_point's loop, and its return.
Step(p) ==
    \/ CreateCollections(p)
    \/ GetCollectionsInfo(p)
    \/ AddPoints(p)
    \/ AddPointVector(p)
    \/ AddPointPayload(p)
    \/ GetPoints(p)
    \/ GetPoint(p)
    \/ SearchPoints(p)
    \/ DeletePoints(p)
    \/ DeleteCollection(p)
    \/ Return(p)

\* The tokio runtime keeps running a task that can run, and tokio's Mutex
\* hands the guard to its waiters in turn, so no waiter is passed over for
\* ever.  Nothing makes a request arrive.
Fairness ==
    \A p \in Procs : WF_vars(Step(p)) /\ SF_vars(Lock(p))

FairSpec == Spec /\ Fairness

\* C23: under fair scheduling no task holds the lock for ever and no request
\* stays for ever short of its end, waiting for the lock or holding it: again
\* and again the task is idle, whether its storage calls succeed, return an
\* error or panic.  A task gets from waiting to idle only through Lock, so
\* every waiting task acquires the lock.
C23_LockAlwaysReleased ==
    \A p \in Procs : []<>(pc[p] = "idle") /\ []<>(lock # p)

\* A task's storage call has panicked while it holds the guard and another
\* task waits for it.
C23_Witness ==
    \E p, q \in Procs :
        /\ resp[p].kind = "panic"
        /\ lock = p
        /\ pc[q] = "wait"

====
